---------------------------- MODULE Spec2Model ----------------------------
(***************************************************************************)
(* A model of three parts of radiant-rs:                                   *)
(*   - Layer (src/src/graphics/layer.rs): the per-layer state and the      *)
(*     modification counter lid;                                           *)
(*   - FontCache and layout_paragraph (src/src/core/font.rs): the glyph    *)
(*     cache's queue/update protocol and the paragraph layout loop;        *)
(*   - sprite sheets (src/src/graphics/sprite.rs): parse_parameters,       *)
(*     get_frame_coordinates and load_spritesheet.                         *)
(* Each part has its own specification (SpecLayer, SpecCache, SpecLayout,  *)
(* SpecSprite) over the variables of that part; the variables of the other *)
(* parts stay at their initial values.                                     *)
(***************************************************************************)
EXTENDS Integers, Sequences, FiniteSets, TLC

VARIABLES
    \* ---- Layer (layer.rs) ----
    lid,            \* Layer.lid: AtomicUsize, the modification counter
    vertex_data,    \* Layer.vertex_data: the vertices appended so far
    view_matrix,    \* Layer.view_matrix (behind its Mutex)
    model_matrix,   \* Layer.model_matrix
    blend,          \* Layer.blend
    color,          \* Layer.color
    op,             \* the Layer method that returned last ("new" after Layer::new)
    lidBefore,      \* lid as read by the caller right before that method ran
    dpc,            \* where each thread that draws a sprite onto the layer stands
    dargs,          \* Sprite::draw's self, frame_id, x and color, per thread
    dtex,           \* its local texture_id
    drun,           \* the first slot of the run vertex_data.map(4) gave the thread
    dk,             \* the vertex of the run the thread writes next, 0 .. 3
    \* ---- FontCache (font.rs) ----
    cacheLock,      \* FontCache.cache: the Mutex, "free" or the thread holding it
    cachePoisoned,  \* ... and its poison flag (a holder panicked)
    queueLock,      \* FontCache.queue: the Mutex, "free" or the thread holding it
    queuePoisoned,  \* ... and its poison flag
    atlas,          \* the packer (gpu_cache::Cache): the glyph cached in each rectangle
    packerQueue,    \* the packer's own queue, filled by queue_glyph
    pending,        \* FontCache.queue: the pending uploads, (rectangle, pixel data)
    dirty,          \* FontCache.dirty: AtomicBool
    texture,        \* the atlas texture update() writes to, by rectangle
    writes,         \* for each pair the packer issued, how often it was written
    pc,             \* where each thread stands
    args,           \* FontCache::queue's glyphs argument, per producer
    todo,           \* cache_queued: the queued glyphs it has yet to look at
    dirties,        \* FontCache::queue's local `dirties`
    call,           \* the number of the producer's queue call
    calls,          \* queue calls made so far
    ui,             \* FontCache::update: position of its loop in the pending queue
    \* ---- layout_paragraph (font.rs) ----
    text,           \* the text argument, a sequence of characters
    font,           \* the font argument: its kerning table and its glyphs
    width,          \* the width argument, in half pixels (0: no wrapping)
    chars,          \* text.nfc(): the characters the loop has yet to take
    caret,          \* caret, <<x, y>> in half pixels
    last_glyph_id,  \* last_glyph_id: <<>> (None) or <<glyph>>
    result,         \* result: the positioned glyphs
    \* ---- load_spritesheet (sprite.rs) ----
    file,           \* the file name: << >> or the <<W, H, N>> of its _<W>x<H>x<N>. suffix
    dimensions,     \* image_dimensions, <<width, height>> of the decoded image
    overflow_checks,\* the build: whether u32 arithmetic panics on overflow or wraps
    spc,            \* where load_spritesheet stands
    frame_parameters, \* frame_parameters, once parse_parameters has returned
    frames,         \* frames: the crop rectangle of each frame pushed so far
    \* ---- Layer::new, several layers (layer.rs) ----
    LAYER_COUNTER,  \* static LAYER_COUNTER: AtomicUsize
    npc,            \* where each thread that creates a layer stands
    ngid,           \* Layer::new's local gid, per thread
    nbefore,        \* the gids of the layers there were when the thread called Layer::new
    layers,         \* the layer each thread created: << >> or <<[gid, lid]>>
    \* ---- write (font.rs) ----
    ctxLock,        \* the render context's lock: "free" or the thread holding it
    ctxPoisoned,    \* ... and whether a holder panicked
    wpc,            \* where each thread stands in write
    wglyphs,        \* write's local glyphs: what layout_paragraph returned
    wi,             \* the position of write's loop in glyphs
    wrects,         \* what rect_for returned for the glyphs the loop has passed
    wquads,         \* the rectangles write handed to layer::add_rect, in order
    \* ---- FontCache::rect_for, called on its own (font.rs) ----
    rpc,            \* where the thread that calls rect_for stands
    \* ---- Sprite::from_file (sprite.rs) ----
    tex_array,      \* context.tex_array: per bucket, raw (the frames) and dirty
    fpc,            \* where each thread stands in from_file
    flocal,         \* from_file's locals, per thread
    fbefore,        \* tex_array as it was when the thread got the context
    sprites,        \* the sprites from_file has returned, each with its call
    loads           \* from_file calls so far

drawVars == <<dpc, dargs, dtex, drun, dk>>

layerVars == <<lid, vertex_data, view_matrix, model_matrix, blend, color, op, lidBefore,
               drawVars>>

cacheVars == <<cacheLock, cachePoisoned, queueLock, queuePoisoned, atlas, packerQueue,
               pending, dirty, texture, writes, pc, args, todo, dirties, call, calls, ui>>

layoutVars == <<text, font, width, chars, caret, last_glyph_id, result>>

spriteVars == <<file, dimensions, overflow_checks, spc, frame_parameters, frames>>

newVars == <<LAYER_COUNTER, npc, ngid, nbefore, layers>>

writeVars == <<ctxLock, ctxPoisoned, wpc, wglyphs, wi, wrects, wquads>>

fileVars == <<tex_array, fpc, flocal, fbefore, sprites, loads>>

vars == <<layerVars, cacheVars, layoutVars, spriteVars, newVars, writeVars, rpc, fileVars>>

\* What the actions of one part leave alone: the variables of the other parts.
notFont   == <<layerVars, layoutVars, spriteVars, newVars, fileVars>>
notLayer  == <<cacheVars, layoutVars, spriteVars, newVars, writeVars, rpc, fileVars>>
notCache  == <<notFont, writeVars, rpc>>
notLayout == <<layerVars, cacheVars, spriteVars, newVars, writeVars, rpc, fileVars>>
notSprite == <<layerVars, cacheVars, layoutVars, newVars, writeVars, rpc, fileVars>>
notNew    == <<layerVars, cacheVars, layoutVars, spriteVars, writeVars, rpc, fileVars>>
notFile   == <<layerVars, cacheVars, layoutVars, spriteVars, newVars, rpc,
               wpc, wglyphs, wi, wrects, wquads>>

-----------------------------------------------------------------------------
(***************************************************************************)
(* Bounds of the model.                                                    *)
(***************************************************************************)
MaxLid      == 3    \* no Layer method is called once lid has reached this value
MaxQuads    == 2    \* renderer.max_sprites: room in vertex_data, in quads
NGlyphs     == 3    \* distinct glyphs (font id, character, scale, position) queued
CacheCap    == 2    \* glyph rectangles the packer's atlas has room for
MaxCalls    == 3    \* FontCache::queue calls in one run
MaxLen      == 3    \* characters in a text given to layout_paragraph
MaxCount    == 5    \* the largest frame count <N> in a file name
NThreads    == 2    \* threads that draw a sprite onto the layer concurrently
NCreators   == 3    \* threads that create a layer each
MaxLoads    == 3    \* Sprite::from_file calls in one run

-----------------------------------------------------------------------------
(***************************************************************************)
(* Layer                                                                   *)
(***************************************************************************)
Matrices   == {"viewport", "identity"}
BlendModes == {"ALPHA", "ADD"}
Colors     == {"white", "red"}

\* Sprites as create_sprite builds them: sizes in pixels, anchor 0.5 / 0.5.
Sprites ==
    { [width |-> 2, height |-> 2, frames |-> 1, bucket_id |-> 1, texture_id |-> 0],
      [width |-> 4, height |-> 2, frames |-> 3, bucket_id |-> 1, texture_id |-> 1] }

FrameIds == 0 .. 3

\* SpriteTextureId without the wrap of the frame index
SpriteTextureIdNoWrap(sprite, frame_id) == sprite.texture_id + frame_id

\* Sprite::texture_id
SpriteTextureId(sprite, frame_id) == sprite.texture_id + (frame_id % sprite.frames)

\* QuadVertices with the second and third vertex taken for each other
QuadVerticesColumnFirst(sprite, frame_id, x, y, col, scale_x, scale_y) ==
    LET texture_id == SpriteTextureId(sprite, frame_id)
        offset_x0  == (0 - sprite.width) * scale_x
        offset_x1  == (2 * sprite.width - sprite.width) * scale_x
        offset_y0  == (0 - sprite.height) * scale_y
        offset_y1  == (2 * sprite.height - sprite.height) * scale_y
        V(ox, oy, u, v) ==
            [position |-> <<x, y>>, offset |-> <<ox, oy>>, rotation |-> 0,
             bucket_id |-> sprite.bucket_id, texture_id |-> texture_id,
             color |-> col, texture_uv |-> <<u, v>>]
    IN  << V(offset_x0, offset_y0, "0", "0"),
           V(offset_x0, offset_y1, "0", "v_max"),
           V(offset_x1, offset_y0, "u_max", "0"),
           V(offset_x1, offset_y1, "u_max", "v_max") >>

\* The four vertices Layer::sprite writes into the run returned by vertex_data.map(4).
\* Offsets are in half pixels: anchor_x * width = width / 2 is width half pixels.
QuadVertices(sprite, frame_id, x, y, col, scale_x, scale_y) ==
    LET texture_id == SpriteTextureId(sprite, frame_id)
        offset_x0  == (0 - sprite.width) * scale_x
        offset_x1  == (2 * sprite.width - sprite.width) * scale_x
        offset_y0  == (0 - sprite.height) * scale_y
        offset_y1  == (2 * sprite.height - sprite.height) * scale_y
        V(ox, oy, u, v) ==
            [position |-> <<x, y>>, offset |-> <<ox, oy>>, rotation |-> 0,
             bucket_id |-> sprite.bucket_id, texture_id |-> texture_id,
             color |-> col, texture_uv |-> <<u, v>>]
    IN  << V(offset_x0, offset_y0, "0", "0"),
           V(offset_x1, offset_y0, "u_max", "0"),
           V(offset_x0, offset_y1, "0", "v_max"),
           V(offset_x1, offset_y1, "u_max", "v_max") >>

\* The threads that draw onto the layer, and what one draws before it has drawn.
Threads == 1 .. NThreads

NoDraw == [sprite |-> [width |-> 0, height |-> 0, frames |-> 0, bucket_id |-> 0,
                       texture_id |-> 0],
           frame_id |-> 0, x |-> 0, color |-> "none"]

\* Layer::new
LayerNew ==
    /\ lid = 0
    /\ vertex_data = << >>
    /\ view_matrix = "viewport"
    /\ model_matrix = "identity"
    /\ blend = "ALPHA"
    /\ color = "white"
    /\ op = "new"
    /\ lidBefore = 0
    /\ dpc = [t \in Threads |-> "idle"]
    /\ dargs = [t \in Threads |-> NoDraw]
    /\ dtex = [t \in Threads |-> 0]
    /\ drun = [t \in Threads |-> 0]
    /\ dk = [t \in Threads |-> 0]

\* The caller's frame around one Layer method: it reads lid, then the method runs.
Called(name) ==
    /\ lid < MaxLid
    /\ op' = name
    /\ lidBefore' = lid
    /\ UNCHANGED <<notLayer, drawVars>>

\* Layer::set_color: self.color().set(color)
LayerSetColor ==
    \E c \in Colors :
        /\ Called("set_color")
        /\ color' = c
        /\ UNCHANGED <<lid, vertex_data, view_matrix, model_matrix, blend>>

\* Layer::set_view_matrix: self.view_matrix().set(matrix)
LayerSetViewMatrix ==
    \E m \in Matrices :
        /\ Called("set_view_matrix")
        /\ view_matrix' = m
        /\ UNCHANGED <<lid, vertex_data, model_matrix, blend, color>>

\* Layer::set_model_matrix: self.model_matrix().set(matrix)
LayerSetModelMatrix ==
    \E m \in Matrices :
        /\ Called("set_model_matrix")
        /\ model_matrix' = m
        /\ UNCHANGED <<lid, vertex_data, view_matrix, blend, color>>

\* Layer::set_blendmode: self.blendmode().set(blendmode)
LayerSetBlendmode ==
    \E b \in BlendModes :
        /\ Called("set_blendmode")
        /\ blend' = b
        /\ UNCHANGED <<lid, vertex_data, view_matrix, model_matrix, color>>

\* Layer::color, view_matrix, model_matrix, blendmode: lock and hand out the guard
LayerAccessor ==
    \E name \in {"color", "view_matrix", "model_matrix", "blendmode"} :
        /\ Called(name)
        /\ UNCHANGED <<lid, vertex_data, view_matrix, model_matrix, blend, color>>

\* The caller writes through the guard an accessor returned: *layer.color() = c
LayerGuardWrite ==
    \/ \E c \in Colors :
          /\ Called("color")
          /\ color' = c
          /\ UNCHANGED <<lid, vertex_data, view_matrix, model_matrix, blend>>
    \/ \E m \in Matrices :
          /\ Called("view_matrix")
          /\ view_matrix' = m
          /\ UNCHANGED <<lid, vertex_data, model_matrix, blend, color>>
    \/ \E m \in Matrices :
          /\ Called("model_matrix")
          /\ model_matrix' = m
          /\ UNCHANGED <<lid, vertex_data, view_matrix, blend, color>>
    \/ \E b \in BlendModes :
          /\ Called("blendmode")
          /\ blend' = b
          /\ UNCHANGED <<lid, vertex_data, view_matrix, model_matrix, color>>

\* Layer::sprite: lid.fetch_add(1), then four vertices through vertex_data.map(4)
LayerSprite ==
    \E sprite \in Sprites, frame_id \in {1, 3}, x \in {0}, col \in Colors :
        /\ Called("sprite")
        /\ Len(vertex_data) + 4 <= 4 * MaxQuads
        /\ lid' = lid + 1
        /\ vertex_data' = vertex_data \o QuadVertices(sprite, frame_id, x, 0, col, 1, 1)
        /\ UNCHANGED <<view_matrix, model_matrix, blend, color>>

\* Layer::draw: hands the layer to the renderer, which reads it
LayerDraw ==
    /\ Called("draw")
    /\ UNCHANGED <<lid, vertex_data, view_matrix, model_matrix, blend, color>>

\* Layer::reset: lid.fetch_add(1), then vertex_data.clear()
LayerReset ==
    /\ Called("reset")
    /\ lid' = lid + 1
    /\ vertex_data' = << >>
    /\ UNCHANGED <<view_matrix, model_matrix, blend, color>>

LayerNext ==
    \/ LayerSetColor
    \/ LayerSetViewMatrix
    \/ LayerSetModelMatrix
    \/ LayerSetBlendmode
    \/ LayerAccessor
    \/ LayerGuardWrite
    \/ LayerSprite
    \/ LayerDraw
    \/ LayerReset

-----------------------------------------------------------------------------
(***************************************************************************)
(* Threads drawing onto one Layer                                          *)
(*                                                                         *)
(* Sprite::draw takes the layer by shared reference and hands the quad to  *)
(* layer::add_rect, which fills a run of vertex_data as Layer::sprite      *)
(* does.  AVec is the append-only buffer of section 4.3: map(n) reserves   *)
(* the next n slots as one run, in one step, and hands them to the caller  *)
(* to fill; a slot not yet written holds Unwritten.                        *)
(***************************************************************************)
Unwritten == [position |-> <<0, 0>>, offset |-> <<0, 0>>, rotation |-> 0,
              bucket_id |-> 0, texture_id |-> 0, color |-> "none",
              texture_uv |-> <<"0", "0">>]

\* AVec::map(n): the run reserved, and the buffer with it
MapRun(buffer, n) == Len(buffer) + 1
MapBuffer(buffer, n) == buffer \o [i \in 1 .. n |-> Unwritten]

\* SlotOf writing the last vertex over the third
SlotOfThirdTwice(run, k) == run + (IF k = 3 THEN 2 ELSE k)

\* vertex[k] of the run: its slot in the buffer
SlotOf(run, k) == run + k

\* The quad a thread draws, with the texture_id Sprite::draw computed
QuadOf(t) ==
    LET quad == QuadVertices(dargs[t].sprite, dargs[t].frame_id, dargs[t].x, 0,
                             dargs[t].color, 1, 1)
    IN  [i \in 1 .. 4 |-> [quad[i] EXCEPT !.texture_id = dtex[t]]]

\* Sprite::draw(layer, frame_id, x, y, color): bucket_id, texture_id, uv, ... are computed
DrawCall(t) ==
    \E sprite \in Sprites, frame_id \in FrameIds :
        /\ dpc[t] = "idle"
        /\ dargs' = [dargs EXCEPT ![t] = [sprite |-> sprite, frame_id |-> frame_id,
                                          x |-> t, color |-> "white"]]
        /\ dtex' = [dtex EXCEPT ![t] = SpriteTextureId(sprite, frame_id)]
        /\ dpc' = [dpc EXCEPT ![t] = "add_rect"]
        /\ UNCHANGED <<notLayer, lid, vertex_data, view_matrix, model_matrix, blend, color,
                       op, lidBefore, drun, dk>>

\* self.lid.fetch_add(1, Ordering::Relaxed)
DrawBump(t) ==
    /\ dpc[t] = "add_rect"
    /\ lid' = lid + 1
    /\ dpc' = [dpc EXCEPT ![t] = "map"]
    /\ UNCHANGED <<notLayer, vertex_data, view_matrix, model_matrix, blend, color,
                   op, lidBefore, dargs, dtex, drun, dk>>

\* let mut vertex = self.vertex_data.map(4);
DrawMap(t) ==
    /\ dpc[t] = "map"
    /\ Len(vertex_data) + 4 <= 4 * MaxQuads
    /\ drun' = [drun EXCEPT ![t] = MapRun(vertex_data, 4)]
    /\ vertex_data' = MapBuffer(vertex_data, 4)
    /\ dk' = [dk EXCEPT ![t] = 0]
    /\ dpc' = [dpc EXCEPT ![t] = "fill"]
    /\ UNCHANGED <<notLayer, lid, view_matrix, model_matrix, blend, color,
                   op, lidBefore, dargs, dtex>>

\* vertex[k].position = ..; ... vertex[k].texture_uv = ..;
DrawFill(t) ==
    /\ dpc[t] = "fill"
    /\ dk[t] < 4
    /\ vertex_data' = [vertex_data EXCEPT ![SlotOf(drun[t], dk[t])] = QuadOf(t)[dk[t] + 1]]
    /\ dk' = [dk EXCEPT ![t] = dk[t] + 1]
    /\ UNCHANGED <<notLayer, lid, view_matrix, model_matrix, blend, color,
                   op, lidBefore, dpc, dargs, dtex, drun>>

\* the guard returned by map goes out of scope; the call returns
DrawReturn(t) ==
    /\ dpc[t] = "fill"
    /\ dk[t] = 4
    /\ dpc' = [dpc EXCEPT ![t] = "done"]
    /\ UNCHANGED <<notLayer, lid, vertex_data, view_matrix, model_matrix, blend, color,
                   op, lidBefore, dargs, dtex, drun, dk>>

DrawNext(t) ==
    \/ DrawCall(t)
    \/ DrawBump(t)
    \/ DrawMap(t)
    \/ DrawFill(t)
    \/ DrawReturn(t)

ThreadsNext == \E t \in Threads : DrawNext(t)

-----------------------------------------------------------------------------
(***************************************************************************)
(* Layer::new, called by several threads                                   *)
(***************************************************************************)
Creators == 1 .. NCreators

\* The gids of the layers that exist.
Gids == {layers[c][1].gid : c \in {d \in Creators : layers[d] # << >>}}

NewInit ==
    /\ LAYER_COUNTER = 0
    /\ npc = [c \in Creators |-> "idle"]
    /\ ngid = [c \in Creators |-> 0]
    /\ nbefore = [c \in Creators |-> {}]
    /\ layers = [c \in Creators |-> << >>]

\* FetchAdd as a load: the counter is read and left as it is
FetchAddLoadOnly(counter) == [old |-> counter, new |-> counter]

\* AtomicUsize::fetch_add(1, Ordering::Relaxed): the value before, and the counter after
FetchAdd(counter) == [old |-> counter, new |-> counter + 1]

\* A thread calls Layer::new(renderer, dimensions)
NewCall(c) ==
    /\ npc[c] = "idle"
    /\ nbefore' = [nbefore EXCEPT ![c] = Gids]
    /\ npc' = [npc EXCEPT ![c] = "fetch"]
    /\ UNCHANGED <<notNew, LAYER_COUNTER, ngid, layers>>

\* let gid = LAYER_COUNTER.fetch_add(1, Ordering::Relaxed);
NewFetch(c) ==
    /\ npc[c] = "fetch"
    /\ ngid' = [ngid EXCEPT ![c] = FetchAdd(LAYER_COUNTER).old]
    /\ LAYER_COUNTER' = FetchAdd(LAYER_COUNTER).new
    /\ npc' = [npc EXCEPT ![c] = "construct"]
    /\ UNCHANGED <<notNew, nbefore, layers>>

\* Layer { ..., gid: gid, lid: ATOMIC_USIZE_INIT, ... }
NewConstruct(c) ==
    /\ npc[c] = "construct"
    /\ layers' = [layers EXCEPT ![c] = <<[gid |-> ngid[c], lid |-> 0]>>]
    /\ npc' = [npc EXCEPT ![c] = "created"]
    /\ UNCHANGED <<notNew, LAYER_COUNTER, ngid, nbefore>>

\* A method of the created layer runs: sprite and reset bump lid, the others
\* leave both counters alone
NewLayerMethod(c) ==
    /\ npc[c] = "created"
    /\ layers[c][1].lid < MaxLid
    /\ layers' = [layers EXCEPT ![c] = <<[@[1] EXCEPT !.lid = @ + 1]>>]
    /\ UNCHANGED <<notNew, LAYER_COUNTER, npc, ngid, nbefore>>

NewNext ==
    \E c \in Creators :
        \/ NewCall(c)
        \/ NewFetch(c)
        \/ NewConstruct(c)
        \/ NewLayerMethod(c)

-----------------------------------------------------------------------------
(***************************************************************************)
(* FontCache                                                               *)
(*                                                                         *)
(* The packer is rusttype's gpu_cache::Cache, seen through the calls       *)
(* FontCache makes: queue_glyph adds a glyph to the packer's queue;        *)
(* cache_queued looks at every queued glyph, hands the closure one         *)
(* (rectangle, pixel data) pair for each glyph that is not cached, taking  *)
(* a free rectangle or, when none is free, the rectangle of a cached glyph *)
(* the queue does not use, and returns an error when no rectangle can be   *)
(* had.  A glyph here is what the packer keys its cache by.  The atomic    *)
(* dirty flag is read and written in one step each.                        *)
(***************************************************************************)
Producers == {"p1", "p2"}
Render    == "render"
Glyphs    == 1 .. NGlyphs
Slots     == 1 .. CacheCap

Min(S) == CHOOSE x \in S : \A y \in S : x <= y

\* The glyph slices handed to FontCache::queue: no glyph, the first glyph, all
\* glyphs but the first, all glyphs.
GlyphArgs == {{}, {Min(Glyphs)}, Glyphs \ {Min(Glyphs)}, Glyphs}

RECURSIVE SortedSeq(_)
SortedSeq(S) ==
    IF S = {} THEN << >>
    ELSE <<Min(S)>> \o SortedSeq(S \ {Min(S)})

\* The glyphs the packer has cached: atlas[s] is {} for a free rectangle.
Cached == UNION {atlas[s] : s \in Slots}

\* FontCache::new
CacheInit ==
    /\ cacheLock = "free"
    /\ cachePoisoned = FALSE
    /\ queueLock = "free"
    /\ queuePoisoned = FALSE
    /\ atlas = [s \in Slots |-> {}]
    /\ packerQueue = {}
    /\ pending = << >>
    /\ dirty = FALSE
    /\ texture = [s \in Slots |-> {}]
    /\ writes = << >>
    /\ pc = [t \in Producers \cup {Render} |-> "idle"]
    /\ args = [t \in Producers |-> {}]
    /\ todo = [t \in Producers |-> << >>]
    /\ dirties = [t \in Producers |-> FALSE]
    /\ call = [t \in Producers |-> 0]
    /\ calls = 0
    /\ ui = 1

\* CanLock for a Mutex that excludes nobody.
CanLockAlways(lock, t) == TRUE

\* A Mutex can be taken by t: nobody holds it.
CanLock(lock, t) == lock = "free"

\* What unwinding does to a Mutex whose guard thread t holds: released and poisoned.
UnwindLock(lock, t) == IF lock = t THEN "free" ELSE lock
UnwindPoison(lock, poisoned, t) == poisoned \/ lock = t

\* An unwrap() fails in thread t: the thread unwinds, dropping its guards.
Panic(t) ==
    /\ pc' = [pc EXCEPT ![t] = "panicked"]
    /\ cachePoisoned' = UnwindPoison(cacheLock, cachePoisoned, t)
    /\ queuePoisoned' = UnwindPoison(queueLock, queuePoisoned, t)
    /\ cacheLock' = UnwindLock(cacheLock, t)
    /\ queueLock' = UnwindLock(queueLock, t)

\* A producer calls FontCache::queue(font_id, glyphs).
QueueCall(t) ==
    \E gs \in GlyphArgs :
        /\ pc[t] = "idle"
        /\ calls < MaxCalls
        /\ calls' = calls + 1
        /\ call' = [call EXCEPT ![t] = calls + 1]
        /\ args' = [args EXCEPT ![t] = gs]
        /\ pc' = [pc EXCEPT ![t] = "q_lock_cache"]
        /\ UNCHANGED <<notCache, cacheLock, cachePoisoned, queueLock, queuePoisoned, atlas,
                       packerQueue, pending, dirty, texture, writes, todo, dirties, ui>>

\* let mut cache = self.cache.lock().unwrap();
QueueLockCache(t) ==
    /\ pc[t] = "q_lock_cache"
    /\ CanLock(cacheLock, t)
    /\ ~cachePoisoned
    /\ cacheLock' = t
    /\ pc' = [pc EXCEPT ![t] = "q_lock_queue"]
    /\ UNCHANGED <<notCache, cachePoisoned, queueLock, queuePoisoned, atlas, packerQueue, pending,
                   dirty, texture, writes, args, todo, dirties, call, calls, ui>>

QueueLockCachePoisoned(t) ==
    /\ pc[t] = "q_lock_cache"
    /\ CanLock(cacheLock, t)
    /\ cachePoisoned
    /\ Panic(t)
    /\ UNCHANGED <<notCache, atlas, packerQueue, pending, dirty, texture, writes, args, todo,
                   dirties, call, calls, ui>>

\* let mut queue = self.queue.lock().unwrap(); let mut dirties = false;
QueueLockQueue(t) ==
    /\ pc[t] = "q_lock_queue"
    /\ CanLock(queueLock, t)
    /\ IF queuePoisoned
       THEN /\ Panic(t)
            /\ UNCHANGED dirties
       ELSE /\ queueLock' = t
            /\ dirties' = [dirties EXCEPT ![t] = FALSE]
            /\ pc' = [pc EXCEPT ![t] = "q_glyphs"]
            /\ UNCHANGED <<cacheLock, cachePoisoned, queuePoisoned>>
    /\ UNCHANGED <<notCache, atlas, packerQueue, pending, dirty, texture, writes, args,
                   todo, call, calls, ui>>

\* for glyph in glyphs { cache.queue_glyph(font_id, glyph.clone()); }
\* and cache_queued starts on the packer's queue
QueueGlyphs(t) ==
    /\ pc[t] = "q_glyphs"
    /\ packerQueue' = packerQueue \cup args[t]
    /\ todo' = [todo EXCEPT ![t] = SortedSeq(packerQueue')]
    /\ pc' = [pc EXCEPT ![t] = "q_cache_queued"]
    /\ UNCHANGED <<notCache, cacheLock, cachePoisoned, queueLock, queuePoisoned, atlas, pending,
                   dirty, texture, writes, args, dirties, call, calls, ui>>

\* The rectangles cache_queued can give a glyph that is not cached: the next free
\* one, or else that of any cached glyph the packer's queue does not hold.
RoomFor(g) ==
    IF \E s \in Slots : atlas[s] = {}
    THEN {Min({s \in Slots : atlas[s] = {}})}
    ELSE {s \in Slots : atlas[s] \cap packerQueue = {}}

\* The closure handed to cache_queued: queue.push((rect, data.to_vec())); dirties = true;
Uploader(t, rect, data) ==
    /\ pending' = Append(pending, [rect |-> rect, data |-> data,
                                   id |-> Len(writes) + 1, call |-> call[t]])
    /\ writes' = Append(writes, 0)
    /\ dirties' = [dirties EXCEPT ![t] = TRUE]

\* CacheQueuedHit with a packer that does not look the glyph up: it is uploaded
\* again, to the rectangle it has.
CacheQueuedHitUploads(t) ==
    /\ pc[t] = "q_cache_queued"
    /\ todo[t] # << >>
    /\ Head(todo[t]) \in Cached
    /\ \E s \in {r \in Slots : atlas[r] = {Head(todo[t])}} : Uploader(t, s, Head(todo[t]))
    /\ todo' = [todo EXCEPT ![t] = Tail(todo[t])]
    /\ UNCHANGED <<notCache, cacheLock, cachePoisoned, queueLock, queuePoisoned, atlas,
                   packerQueue, dirty, texture, pc, args, call, calls, ui>>

\* cache_queued, a queued glyph that is cached: nothing is uploaded
CacheQueuedHit(t) ==
    /\ pc[t] = "q_cache_queued"
    /\ todo[t] # << >>
    /\ Head(todo[t]) \in Cached
    /\ todo' = [todo EXCEPT ![t] = Tail(todo[t])]
    /\ UNCHANGED <<notCache, cacheLock, cachePoisoned, queueLock, queuePoisoned, atlas, packerQueue,
                   pending, dirty, texture, writes, pc, args, dirties, call, calls, ui>>

\* cache_queued, a queued glyph that is not cached: it gets a rectangle and is uploaded
CacheQueuedMiss(t) ==
    /\ pc[t] = "q_cache_queued"
    /\ todo[t] # << >>
    /\ Head(todo[t]) \notin Cached
    /\ \E s \in RoomFor(Head(todo[t])) :
        /\ atlas' = [atlas EXCEPT ![s] = {Head(todo[t])}]
        /\ Uploader(t, s, Head(todo[t]))
    /\ todo' = [todo EXCEPT ![t] = Tail(todo[t])]
    /\ UNCHANGED <<notCache, cacheLock, cachePoisoned, queueLock, queuePoisoned, packerQueue,
                   dirty, texture, pc, args, call, calls, ui>>

\* cache_queued returns Err (no room for the whole queue): .unwrap() panics
CacheQueuedErr(t) ==
    /\ pc[t] = "q_cache_queued"
    /\ todo[t] # << >>
    /\ Head(todo[t]) \notin Cached
    /\ RoomFor(Head(todo[t])) = {}
    /\ Panic(t)
    /\ UNCHANGED <<notCache, atlas, packerQueue, pending, dirty, texture, writes, args, todo,
                   dirties, call, calls, ui>>

\* cache_queued returns Ok(()): the packer's queue is empty again
CacheQueuedOk(t) ==
    /\ pc[t] = "q_cache_queued"
    /\ todo[t] = << >>
    /\ packerQueue' = {}
    /\ pc' = [pc EXCEPT ![t] = "q_store"]
    /\ UNCHANGED <<notCache, cacheLock, cachePoisoned, queueLock, queuePoisoned, atlas, pending,
                   dirty, texture, writes, args, todo, dirties, call, calls, ui>>

\* if dirties { self.dirty.store(dirties, Ordering::Relaxed); }
QueueStoreDirty(t) ==
    /\ pc[t] = "q_store"
    /\ dirty' = IF dirties[t] THEN TRUE ELSE dirty
    /\ pc' = [pc EXCEPT ![t] = "q_return"]
    /\ UNCHANGED <<notCache, cacheLock, cachePoisoned, queueLock, queuePoisoned, atlas, packerQueue,
                   pending, texture, writes, args, todo, dirties, call, calls, ui>>

\* QueueReturn with the guard of the pending queue kept alive
QueueReturnKeepsQueueGuard(t) ==
    /\ pc[t] = "q_return"
    /\ cacheLock' = IF cacheLock = t THEN "free" ELSE cacheLock
    /\ pc' = [pc EXCEPT ![t] = "idle"]
    /\ UNCHANGED <<notCache, cachePoisoned, queueLock, queuePoisoned, atlas, packerQueue, pending,
                   dirty, texture, writes, args, todo, dirties, call, calls, ui>>

\* FontCache::queue returns: both guards are dropped
QueueReturn(t) ==
    /\ pc[t] = "q_return"
    /\ cacheLock' = IF cacheLock = t THEN "free" ELSE cacheLock
    /\ queueLock' = IF queueLock = t THEN "free" ELSE queueLock
    /\ pc' = [pc EXCEPT ![t] = "idle"]
    /\ UNCHANGED <<notCache, cachePoisoned, queuePoisoned, atlas, packerQueue, pending, dirty,
                   texture, writes, args, todo, dirties, call, calls, ui>>

\* FontCache::update, dirty.load() is false: it returns at once
UpdateClean ==
    /\ pc[Render] = "idle"
    /\ ~dirty
    /\ pc' = [pc EXCEPT ![Render] = "returned"]
    /\ UNCHANGED <<notCache, cacheLock, cachePoisoned, queueLock, queuePoisoned, atlas, packerQueue,
                   pending, dirty, texture, writes, args, todo, dirties, call, calls, ui>>

\* FontCache::update, dirty.load() is true
UpdateDirty ==
    /\ pc[Render] = "idle"
    /\ dirty
    /\ pc' = [pc EXCEPT ![Render] = "u_lock"]
    /\ UNCHANGED <<notCache, cacheLock, cachePoisoned, queueLock, queuePoisoned, atlas, packerQueue,
                   pending, dirty, texture, writes, args, todo, dirties, call, calls, ui>>

\* let mut queue = self.queue.lock().unwrap();
UpdateLock ==
    /\ pc[Render] = "u_lock"
    /\ CanLock(queueLock, Render)
    /\ ~queuePoisoned
    /\ queueLock' = Render
    /\ ui' = 1
    /\ pc' = [pc EXCEPT ![Render] = "u_write"]
    /\ UNCHANGED <<notCache, cacheLock, cachePoisoned, queuePoisoned, atlas, packerQueue, pending,
                   dirty, texture, writes, args, todo, dirties, call, calls>>

UpdateLockPoisoned ==
    /\ pc[Render] = "u_lock"
    /\ CanLock(queueLock, Render)
    /\ queuePoisoned
    /\ Panic(Render)
    /\ UNCHANGED <<notCache, atlas, packerQueue, pending, dirty, texture, writes, args, todo,
                   dirties, call, calls, ui>>

\* for &(ref rect, ref data) in queue.deref() { texture.main_level().write(...) }
UpdateWrite ==
    /\ pc[Render] = "u_write"
    /\ ui <= Len(pending)
    /\ texture' = [texture EXCEPT ![pending[ui].rect] = {pending[ui].data}]
    /\ writes' = [writes EXCEPT ![pending[ui].id] = @ + 1]
    /\ ui' = ui + 1
    /\ UNCHANGED <<notCache, cacheLock, cachePoisoned, queueLock, queuePoisoned, atlas, packerQueue,
                   pending, dirty, pc, args, todo, dirties, call, calls>>

\* queue.clear();
UpdateClear ==
    /\ pc[Render] = "u_write"
    /\ ui > Len(pending)
    /\ pending' = << >>
    /\ pc' = [pc EXCEPT ![Render] = "u_store"]
    /\ UNCHANGED <<notCache, cacheLock, cachePoisoned, queueLock, queuePoisoned, atlas, packerQueue,
                   dirty, texture, writes, args, todo, dirties, call, calls, ui>>

\* self.dirty.store(false, Ordering::Relaxed);
UpdateStoreClean ==
    /\ pc[Render] = "u_store"
    /\ dirty' = FALSE
    /\ pc' = [pc EXCEPT ![Render] = "u_return"]
    /\ UNCHANGED <<notCache, cacheLock, cachePoisoned, queueLock, queuePoisoned, atlas, packerQueue,
                   pending, texture, writes, args, todo, dirties, call, calls, ui>>

\* FontCache::update returns: the guard is dropped
UpdateReturn ==
    /\ pc[Render] = "u_return"
    /\ queueLock' = IF queueLock = Render THEN "free" ELSE queueLock
    /\ pc' = [pc EXCEPT ![Render] = "returned"]
    /\ UNCHANGED <<notCache, cacheLock, cachePoisoned, queuePoisoned, atlas, packerQueue, pending,
                   dirty, texture, writes, args, todo, dirties, call, calls, ui>>

\* The render thread goes on with its frame; update is called again in the next one.
RenderFrame ==
    /\ pc[Render] = "returned"
    /\ pc' = [pc EXCEPT ![Render] = "idle"]
    /\ UNCHANGED <<notCache, cacheLock, cachePoisoned, queueLock, queuePoisoned, atlas, packerQueue,
                   pending, dirty, texture, writes, args, todo, dirties, call, calls, ui>>

QueueNext(t) ==
    \/ QueueCall(t)
    \/ QueueLockCache(t)
    \/ QueueLockCachePoisoned(t)
    \/ QueueLockQueue(t)
    \/ QueueGlyphs(t)
    \/ CacheQueuedHit(t)
    \/ CacheQueuedMiss(t)
    \/ CacheQueuedErr(t)
    \/ CacheQueuedOk(t)
    \/ QueueStoreDirty(t)
    \/ QueueReturn(t)

UpdateNext ==
    \/ UpdateClean
    \/ UpdateDirty
    \/ UpdateLock
    \/ UpdateLockPoisoned
    \/ UpdateWrite
    \/ UpdateClear
    \/ UpdateStoreClean
    \/ UpdateReturn
    \/ RenderFrame

CacheNext == (\E t \in Producers : QueueNext(t)) \/ UpdateNext

\* The thread that calls FontCache::rect_for while the others queue and update
Reader == "reader"

\* rect_for(font_id, glyph) is called
RectForCall ==
    /\ rpc \in {"idle", "some", "none"}
    /\ rpc' = "r_lock"
    /\ UNCHANGED <<notFont, writeVars, cacheVars>>

\* let cache = self.cache.lock().unwrap();
RectForLock ==
    /\ rpc = "r_lock"
    /\ CanLock(cacheLock, Reader)
    /\ IF cachePoisoned
       THEN /\ rpc' = "panicked"
            /\ UNCHANGED cacheLock
       ELSE /\ rpc' = "r_read"
            /\ cacheLock' = Reader
    /\ UNCHANGED <<notFont, writeVars, cachePoisoned, queueLock, queuePoisoned, atlas,
                   packerQueue, pending, dirty, texture, writes, pc, args, todo, dirties,
                   call, calls, ui>>

\* cache.rect_for(font_id, glyph) is read, Some or None is returned, the guard dropped
RectForReturn ==
    /\ rpc = "r_read"
    /\ cacheLock' = "free"
    /\ \E g \in Glyphs : rpc' = IF g \in Cached THEN "some" ELSE "none"
    /\ UNCHANGED <<notFont, writeVars, cachePoisoned, queueLock, queuePoisoned, atlas,
                   packerQueue, pending, dirty, texture, writes, pc, args, todo, dirties,
                   call, calls, ui>>

RectForNext == RectForCall \/ RectForLock \/ RectForReturn

\* queue, update and rect_for called concurrently
LocksNext == CacheNext \/ RectForNext

-----------------------------------------------------------------------------
(***************************************************************************)
(* write                                                                   *)
(*                                                                         *)
(* write lays the text out, locks the render context, queues the glyphs    *)
(* and then resolves them one by one.  The render context and its lock     *)
(* (rendercontext::lock) are taken to be the internally locked shared      *)
(* context of the design notes: one holder at a time, poisoned when a      *)
(* holder panics.  Glyph 0 is a glyph without a bitmap (whitespace): the   *)
(* packer does not queue it and has no rectangle for it.                   *)
(***************************************************************************)
NoBitmap == 0

\* What layout_paragraph returns for the texts written
WriteGlyphs == { << >>, <<NoBitmap>>, <<2, NoBitmap, 1>>, <<NGlyphs, NGlyphs>>,
                 SortedSeq(Glyphs) }

\* The glyphs of a sequence that queue_glyph puts on the packer's queue
Queued(gs) == {gs[i] : i \in 1 .. Len(gs)} \ {NoBitmap}

WriteInit ==
    /\ rpc = "idle"
    /\ ctxLock = "free"
    /\ ctxPoisoned = FALSE
    /\ wpc = [t \in Producers |-> "idle"]
    /\ wglyphs = [t \in Producers |-> << >>]
    /\ wi = [t \in Producers |-> 1]
    /\ wrects = [t \in Producers |-> << >>]
    /\ wquads = [t \in Producers |-> << >>]

\* FontCache::rect_for: Some for Ok(Some(..)) of the packer, else None;
\* << >> is None, <<s>> the rectangle s
RectFor(g) ==
    IF g # NoBitmap /\ g \in Cached
    THEN <<CHOOSE s \in Slots : atlas[s] = {g}>>
    ELSE << >>

\* AfterAbsent leaving the loop
AfterAbsentBreaks(i, n) == n + 1

\* The loop after a glyph without a rectangle: the next glyph
AfterAbsent(i, n) == i + 1

\* write(font, layer, text, ..): let glyphs = layout_paragraph(..);
WriteCall(t) ==
    \E gs \in WriteGlyphs :
        /\ wpc[t] \in {"idle", "done"}
        /\ calls < MaxCalls
        /\ wglyphs' = [wglyphs EXCEPT ![t] = gs]
        /\ wi' = [wi EXCEPT ![t] = 1]
        /\ wrects' = [wrects EXCEPT ![t] = << >>]
        /\ wquads' = [wquads EXCEPT ![t] = << >>]
        /\ wpc' = [wpc EXCEPT ![t] = "lock"]
        /\ UNCHANGED <<notFont, rpc, cacheVars, ctxLock, ctxPoisoned>>

\* let context = rendercontext::lock(&font.context);
WriteLockContext(t) ==
    /\ wpc[t] = "lock"
    /\ ctxLock = "free"
    /\ IF ctxPoisoned
       THEN /\ wpc' = [wpc EXCEPT ![t] = "panicked"]
            /\ UNCHANGED ctxLock
       ELSE /\ ctxLock' = t
            /\ wpc' = [wpc EXCEPT ![t] = "queue"]
    /\ UNCHANGED <<notFont, rpc, cacheVars, ctxPoisoned, wglyphs, wi, wrects, wquads>>

\* context.font_cache.queue(font.font_id, &glyphs);
WriteQueue(t) ==
    /\ wpc[t] = "queue"
    /\ pc[t] = "idle"
    /\ calls' = calls + 1
    /\ call' = [call EXCEPT ![t] = calls + 1]
    /\ args' = [args EXCEPT ![t] = Queued(wglyphs[t])]
    /\ pc' = [pc EXCEPT ![t] = "q_lock_cache"]
    /\ wpc' = [wpc EXCEPT ![t] = "resolve"]
    /\ UNCHANGED <<notFont, rpc, cacheLock, cachePoisoned, queueLock, queuePoisoned, atlas,
                   packerQueue, pending, dirty, texture, writes, todo, dirties, ui,
                   ctxLock, ctxPoisoned, wglyphs, wi, wrects, wquads>>

\* FontCache::queue panicked: write unwinds and drops the context guard
WriteUnwind(t) ==
    /\ wpc[t] = "resolve"
    /\ pc[t] = "panicked"
    /\ ctxLock' = "free"
    /\ ctxPoisoned' = TRUE
    /\ wpc' = [wpc EXCEPT ![t] = "panicked"]
    /\ UNCHANGED <<notFont, rpc, cacheVars, wglyphs, wi, wrects, wquads>>

\* FontCache::queue has returned and the loop is at glyph wi
AtGlyph(t) ==
    /\ wpc[t] = "resolve"
    /\ pc[t] = "idle"
    /\ wi[t] <= Len(wglyphs[t])
    /\ CanLock(cacheLock, t) /\ ~cachePoisoned

\* if let Some((uv, pos, dim)) = context.font_cache.rect_for(..) { layer::add_rect(..) }
WriteRect(t) ==
    /\ AtGlyph(t)
    /\ RectFor(wglyphs[t][wi[t]]) # << >>
    /\ wrects' = [wrects EXCEPT ![t] = Append(@, RectFor(wglyphs[t][wi[t]]))]
    /\ wquads' = [wquads EXCEPT ![t] =
                    Append(@, [glyph |-> wi[t], uv |-> RectFor(wglyphs[t][wi[t]])[1]])]
    /\ wi' = [wi EXCEPT ![t] = wi[t] + 1]
    /\ UNCHANGED <<notFont, rpc, cacheVars, ctxLock, ctxPoisoned, wpc, wglyphs>>

\* rect_for returns None: nothing is drawn for the glyph
WriteAbsent(t) ==
    /\ AtGlyph(t)
    /\ RectFor(wglyphs[t][wi[t]]) = << >>
    /\ wrects' = [wrects EXCEPT ![t] = Append(@, << >>)]
    /\ wi' = [wi EXCEPT ![t] = AfterAbsent(wi[t], Len(wglyphs[t]))]
    /\ UNCHANGED <<notFont, rpc, cacheVars, ctxLock, ctxPoisoned, wpc, wglyphs, wquads>>

\* write returns: the context guard is dropped
WriteReturn(t) ==
    /\ wpc[t] = "resolve"
    /\ pc[t] = "idle"
    /\ wi[t] > Len(wglyphs[t])
    /\ ctxLock' = "free"
    /\ wpc' = [wpc EXCEPT ![t] = "done"]
    /\ UNCHANGED <<notFont, rpc, cacheVars, ctxPoisoned, wglyphs, wi, wrects, wquads>>

WriteNext ==
    \E t \in Producers :
        \/ WriteCall(t)
        \/ WriteLockContext(t)
        \/ WriteQueue(t)
        \/ QueueLockCache(t)
        \/ QueueLockQueue(t)
        \/ QueueGlyphs(t)
        \/ CacheQueuedHit(t)
        \/ CacheQueuedMiss(t)
        \/ CacheQueuedErr(t)
        \/ CacheQueuedOk(t)
        \/ QueueStoreDirty(t)
        \/ QueueReturn(t)
        \/ WriteUnwind(t)
        \/ WriteRect(t)
        \/ WriteAbsent(t)
        \/ WriteReturn(t)

-----------------------------------------------------------------------------
(***************************************************************************)
(* layout_paragraph                                                        *)
(*                                                                         *)
(* Horizontal and vertical positions are in half pixels, so that the pixel *)
(* bounding box (rounded outwards to whole pixels) and `width as i32`      *)
(* (cut to whole pixels) are the conversions the code makes.               *)
(* "CR", "LF" and "TAB" are the control characters \r, \n and \t; "acute"  *)
(* is the combining acute accent U+0301 and "eacute" the letter it forms   *)
(* with "e"; "snowman" is a character no font here has a glyph for.        *)
(***************************************************************************)
Controls == {"CR", "LF", "TAB"}
Letters  == {"A", "B", "C", "D", "e", "eacute", "acute", "space", "snowman"}

\* The characters of the texts tried in every combination.
Alphabet == {"B", "C", "CR", "LF", "TAB", "e", "acute", "snowman", "space"}

Scenarios == { <<"A", "B", "CR", "C", "D">>, <<"A", "B", "C", "D">> }

Texts == Scenarios \cup UNION {[1 .. n -> Alphabet] : n \in 0 .. MaxLen}

\* font.pair_kerning for three kerning tables, in half pixels.
KernTables == {"none", "tight", "BC"}

PairKerning(f, first, second) ==
    CASE f.kerning = "none"  -> 0
      [] f.kerning = "tight" -> -1
      [] f.kerning = "BC"    -> IF first = "B" /\ second = "C" THEN 1 ELSE 0

\* The fonts: a kerning table, and whether the font has a glyph for the accent.
Fonts == [kerning : KernTables, accent : BOOLEAN]

\* The wrap widths, in half pixels.
Widths == {0, 11, 15}

\* font.glyph(c)
HasGlyph(f, c) == c # "snowman" /\ (c = "acute" => f.accent)

\* h_metrics().advance_width of the scaled glyph
AdvanceWidth(g) ==
    CASE g \in {"A", "B", "D"}     -> 6
      [] g = "C"                   -> 4
      [] g \in {"e", "eacute"}     -> 5
      [] g = "space"               -> 3
      [] g = "acute"               -> 0

\* Whether the glyph has an outline, and so a bounding box
HasBoundingBox(g) == g # "space"

\* The right edge of the glyph's outline, from its origin
RightExtent(g) ==
    CASE g \in {"A", "B", "D"}     -> 5
      [] g = "C"                   -> 3
      [] g \in {"e", "eacute"}     -> 4
      [] g = "acute"               -> 1

\* font.v_metrics(scale)
VMetrics == [ascent |-> 8, descent |-> -2, line_gap |-> 1]

\* advance_height
AdvanceHeight == VMetrics.ascent - VMetrics.descent + VMetrics.line_gap

\* pixel_bounding_box().max.x of a glyph positioned at x: rounded up to a pixel
PixelMaxX(g, x) == 0 - ((0 - (x + RightExtent(g))) \div 2)

\* width as i32
WidthAsI32(w) == w \div 2

\* text.nfc(): canonical composition, here of "e" with a following accent
RECURSIVE Nfc(_)
Nfc(s) ==
    IF Len(s) < 2 THEN s
    ELSE IF s[1] = "e" /\ s[2] = "acute"
         THEN <<"eacute">> \o Nfc(SubSeq(s, 3, Len(s)))
         ELSE <<s[1]>> \o Nfc(Tail(s))

\* The loop's state before its first character
LayoutStart == [caret |-> <<0, VMetrics.ascent>>, last_glyph_id |-> << >>, result |-> << >>]

\* if c.is_control() { match c { '\r' => ..., '\n' => {}, _ => {} } continue; }
StepControl(st, c) ==
    IF c = "CR"
    THEN [st EXCEPT !.caret = <<0, st.caret[2] + AdvanceHeight>>]
    ELSE st

\* StepNoGlyph with last_glyph_id.take() done before the glyph is looked up
StepNoGlyphTakesLast(st) == [st EXCEPT !.last_glyph_id = << >>]

\* font.glyph(c) is None: continue
StepNoGlyph(st) == st

\* Wraps with the bounding box tested by >= instead of >
WrapsAtEdge(w, g, x) == HasBoundingBox(g) /\ w > 0 /\ PixelMaxX(g, x) >= WidthAsI32(w)

\* The wrap test: a bounding box, a positive width, and bb.max.x > width as i32
Wraps(w, g, x) == HasBoundingBox(g) /\ w > 0 /\ PixelMaxX(g, x) > WidthAsI32(w)

\* StepGlyph leaving the wrapped glyph as the kerning predecessor
StepGlyphKeepsPredecessor(f, w, st, g) ==
    LET kerned == IF st.last_glyph_id # << >>
                  THEN st.caret[1] + PairKerning(f, st.last_glyph_id[1], g)
                  ELSE st.caret[1]
        wrap   == Wraps(w, g, kerned)
        pos    == IF wrap THEN <<0, st.caret[2] + AdvanceHeight>> ELSE <<kerned, st.caret[2]>>
    IN  [caret         |-> <<pos[1] + AdvanceWidth(g), pos[2]>>,
         last_glyph_id |-> <<g>>,
         result        |-> Append(st.result, [glyph |-> g, x |-> pos[1], y |-> pos[2]])]

\* The rest of the loop body, for a character with a glyph
StepGlyph(f, w, st, g) ==
    LET kerned == IF st.last_glyph_id # << >>
                  THEN st.caret[1] + PairKerning(f, st.last_glyph_id[1], g)
                  ELSE st.caret[1]
        wrap   == Wraps(w, g, kerned)
        pos    == IF wrap THEN <<0, st.caret[2] + AdvanceHeight>> ELSE <<kerned, st.caret[2]>>
    IN  [caret         |-> <<pos[1] + AdvanceWidth(g), pos[2]>>,
         last_glyph_id |-> IF wrap THEN << >> ELSE <<g>>,
         result        |-> Append(st.result, [glyph |-> g, x |-> pos[1], y |-> pos[2]])]

\* One pass of the loop body
LayoutStep(f, w, st, c) ==
    IF c \in Controls THEN StepControl(st, c)
    ELSE IF ~HasGlyph(f, c) THEN StepNoGlyph(st)
    ELSE StepGlyph(f, w, st, c)

\* The loop over a sequence of characters, from state st
RECURSIVE LayoutLoop(_, _, _, _)
LayoutLoop(f, w, st, cs) ==
    IF cs = << >> THEN st ELSE LayoutLoop(f, w, LayoutStep(f, w, st, Head(cs)), Tail(cs))

\* layout_paragraph(font, scale, width, text)
LayoutParagraph(f, w, t) == LayoutLoop(f, w, LayoutStart, Nfc(t)).result

\* layout_paragraph is called: the state before the loop
LayoutInit ==
    /\ text \in Texts
    /\ font \in Fonts
    /\ width \in Widths
    /\ chars = Nfc(text)
    /\ caret = LayoutStart.caret
    /\ last_glyph_id = LayoutStart.last_glyph_id
    /\ result = LayoutStart.result

LayoutState == [caret |-> caret, last_glyph_id |-> last_glyph_id, result |-> result]

\* The loop takes its next character
Take(st) ==
    /\ caret' = st.caret
    /\ last_glyph_id' = st.last_glyph_id
    /\ result' = st.result
    /\ chars' = Tail(chars)
    /\ UNCHANGED <<notLayout, text, font, width>>

LayoutControl ==
    /\ chars # << >>
    /\ Head(chars) \in Controls
    /\ Take(LayoutStep(font, width, LayoutState, Head(chars)))

LayoutNoGlyph ==
    /\ chars # << >>
    /\ Head(chars) \notin Controls
    /\ ~HasGlyph(font, Head(chars))
    /\ Take(LayoutStep(font, width, LayoutState, Head(chars)))

LayoutGlyph ==
    /\ chars # << >>
    /\ Head(chars) \notin Controls
    /\ HasGlyph(font, Head(chars))
    /\ Take(LayoutStep(font, width, LayoutState, Head(chars)))

LayoutNext == LayoutControl \/ LayoutNoGlyph \/ LayoutGlyph

-----------------------------------------------------------------------------
(***************************************************************************)
(* Sprite sheets                                                           *)
(*                                                                         *)
(* Widths, heights and counts are u32.  A u32 product is computed in       *)
(* 16-bit halves, as the 32 bits the machine keeps and whether the true    *)
(* product needed more: a build with overflow checks panics on that, a     *)
(* build without them goes on with the 32 bits.                            *)
(***************************************************************************)
Half  == 2^16
Hi(a) == a \div Half
Lo(a) == a % Half

\* a * b in u32, for a, b < 2^31: [overflow, hi, lo], the product being
\* hi * 2^16 + lo modulo 2^32
MulU32(a, b) ==
    LET p0    == Lo(a) % 256
        p1    == Lo(a) \div 256
        q0    == Lo(b) % 256
        q1    == Lo(b) \div 256
        mid   == p1 * q0 + p0 * q1
        low   == (mid % 256) * 256 + p0 * q0
        lowHi == p1 * q1 + (mid \div 256) + (low \div Half)   \* Lo(a) * Lo(b) \div 2^16
        c1    == Hi(a) * Lo(b)
        c2    == Lo(a) * Hi(b)
        upper == lowHi + (c1 % Half) + (c2 % Half)
    IN  [overflow |-> \/ Hi(a) * Hi(b) > 0
                      \/ (c1 \div Half) + (c2 \div Half) + (upper \div Half) > 0,
         hi |-> upper % Half,
         lo |-> low % Half]

\* The u32 value m equals d
U32Equals(m, d) == m.hi = Hi(d) /\ m.lo = Lo(d)

\* The u32 value m as a number
U32Value(m) == m.hi * Half + m.lo

\* The file names and images tried
FrameWidths  == {0, 1, 2, 32, 1431655766}
FrameHeights == {1, 16, 32}
FrameCounts  == 0 .. MaxCount
ImageWidths  == {2, 32, 128}
ImageHeights == {1, 32}

FileNames == {<< >>} \cup (FrameWidths \X FrameHeights \X FrameCounts)

\* frame_width * frame_count == dimensions.0, as the build evaluates it:
\* "panic" (overflow, in a build that checks), "true" or "false"
ProductIs(a, b, d, checks) ==
    LET m == MulU32(a, b)
    IN  IF m.overflow /\ checks THEN "panic"
        ELSE IF U32Equals(m, d) THEN "true" ELSE "false"

\* parse_parameters(dimensions, path): [ok, fp]
ParseParameters(dims, name, checks) ==
    IF name = << >>
    THEN [ok |-> TRUE,
          fp |-> [frame_width |-> dims[1], frame_height |-> dims[2], frame_count |-> 1,
                  frame_layout |-> "HORIZONTAL"]]
    ELSE LET frame_width  == name[1]
             frame_height == name[2]
             frame_count  == name[3]
             frame_layout == IF frame_height = dims[2] THEN "HORIZONTAL" ELSE "VERTICAL"
             first  == frame_layout = "VERTICAL"
                       \/ ProductIs(frame_width, frame_count, dims[1], checks) = "true"
             second == frame_layout = "HORIZONTAL"
                       \/ ProductIs(frame_height, frame_count, dims[2], checks) = "true"
         IN  [ok |-> first /\ second,
              fp |-> [frame_width |-> frame_width, frame_height |-> frame_height,
                      frame_count |-> frame_count, frame_layout |-> frame_layout]]

\* GetFrameCoordinates counting down the columns in either layout
GetFrameCoordinatesByColumn(dims, fp, frame_id, checks) ==
    LET along == IF fp.frame_layout = "HORIZONTAL" THEN fp.frame_width ELSE fp.frame_height
        total == IF fp.frame_layout = "HORIZONTAL" THEN dims[1] ELSE dims[2]
    IN  IF frame_id >= fp.frame_count \/ along = 0 \/ total \div along = 0
        THEN [ok |-> FALSE, x |-> 0, y |-> 0]
        ELSE LET spl == total \div along
                 a   == MulU32(frame_id \div spl, fp.frame_width)
                 b   == MulU32(frame_id % spl, fp.frame_height)
             IN  IF checks /\ (a.overflow \/ b.overflow)
                 THEN [ok |-> FALSE, x |-> 0, y |-> 0]
                 ELSE [ok |-> TRUE, x |-> U32Value(a), y |-> U32Value(b)]

\* get_frame_coordinates(image_dimensions, frame_parameters, frame_id): [ok, x, y];
\* not ok: the assert, a division by zero or (in a build that checks) an overflow
GetFrameCoordinates(dims, fp, frame_id, checks) ==
    LET along == IF fp.frame_layout = "HORIZONTAL" THEN fp.frame_width ELSE fp.frame_height
        total == IF fp.frame_layout = "HORIZONTAL" THEN dims[1] ELSE dims[2]
    IN  IF frame_id >= fp.frame_count \/ along = 0 \/ total \div along = 0
        THEN [ok |-> FALSE, x |-> 0, y |-> 0]
        ELSE LET spl == total \div along
                 a   == IF fp.frame_layout = "HORIZONTAL"
                        THEN MulU32(frame_id % spl, fp.frame_width)
                        ELSE MulU32(frame_id \div spl, fp.frame_width)
                 b   == IF fp.frame_layout = "HORIZONTAL"
                        THEN MulU32(frame_id \div spl, fp.frame_height)
                        ELSE MulU32(frame_id % spl, fp.frame_height)
             IN  IF checks /\ (a.overflow \/ b.overflow)
                 THEN [ok |-> FALSE, x |-> 0, y |-> 0]
                 ELSE [ok |-> TRUE, x |-> U32Value(a), y |-> U32Value(b)]

NoParameters == [frame_width |-> 0, frame_height |-> 0, frame_count |-> 0,
                 frame_layout |-> "none"]

\* load_spritesheet(file) is called; the image has been decoded
SpriteInit ==
    /\ file \in FileNames
    /\ dimensions \in ImageWidths \X ImageHeights
    /\ overflow_checks \in BOOLEAN
    /\ spc = "parse"
    /\ frame_parameters = NoParameters
    /\ frames = << >>

\* let frame_parameters = parse_parameters(image_dimensions, path);
SpriteParse ==
    /\ spc = "parse"
    /\ ParseParameters(dimensions, file, overflow_checks).ok
    /\ frame_parameters' = ParseParameters(dimensions, file, overflow_checks).fp
    /\ spc' = "frames"
    /\ UNCHANGED <<notSprite, file, dimensions, overflow_checks, frames>>

\* parse_parameters panics: an assert! fails, or the product overflows
SpriteParsePanics ==
    /\ spc = "parse"
    /\ ~ParseParameters(dimensions, file, overflow_checks).ok
    /\ spc' = "panicked"
    /\ UNCHANGED <<notSprite, file, dimensions, overflow_checks, frame_parameters, frames>>

\* for frame_id in 0..frame_count { frames.push(build_frame_texture(..)); }
\* build_frame_texture crops at get_frame_coordinates, frame_width x frame_height
SpriteBuildFrame ==
    LET frame_id == Len(frames)
        at       == GetFrameCoordinates(dimensions, frame_parameters, frame_id, overflow_checks)
    IN  /\ spc = "frames"
        /\ frame_id < frame_parameters.frame_count
        /\ at.ok
        /\ frames' = Append(frames, [x |-> at.x, y |-> at.y,
                                     width  |-> frame_parameters.frame_width,
                                     height |-> frame_parameters.frame_height])
        /\ UNCHANGED <<notSprite, file, dimensions, overflow_checks, spc, frame_parameters>>

\* get_frame_coordinates panics
SpriteBuildFramePanics ==
    LET frame_id == Len(frames)
        at       == GetFrameCoordinates(dimensions, frame_parameters, frame_id, overflow_checks)
    IN  /\ spc = "frames"
        /\ frame_id < frame_parameters.frame_count
        /\ ~at.ok
        /\ spc' = "panicked"
        /\ UNCHANGED <<notSprite, file, dimensions, overflow_checks, frame_parameters, frames>>

\* (frame_width, frame_height, frames)
SpriteReturn ==
    /\ spc = "frames"
    /\ Len(frames) >= frame_parameters.frame_count
    /\ spc' = "returned"
    /\ UNCHANGED <<notSprite, file, dimensions, overflow_checks, frame_parameters, frames>>

SpriteNext ==
    \/ SpriteParse
    \/ SpriteParsePanics
    \/ SpriteBuildFrame
    \/ SpriteBuildFramePanics
    \/ SpriteReturn

-----------------------------------------------------------------------------
(***************************************************************************)
(* Sprite::from_file (sprite.rs): several threads load sheets into the     *)
(* texture arrays of one render context.                                   *)
(***************************************************************************)
Loaders == {"l1", "l2"}

\* The sheets handed to from_file: the numbers of the file name (<< >>: no
\* suffix), the size of the image, and what image::open makes of the file.
Sheets ==
    { [file |-> <<32, 32, 2>>, dimensions |-> <<64, 32>>,  image |-> "ok"],
      [file |-> <<32, 16, 2>>, dimensions |-> <<32, 32>>,  image |-> "ok"],
      [file |-> << >>,         dimensions |-> <<2, 1>>,    image |-> "ok"],
      [file |-> <<32, 32, 3>>, dimensions |-> <<64, 32>>,  image |-> "ok"],
      [file |-> << >>,         dimensions |-> <<2, 1>>,    image |-> "not found"],
      [file |-> <<32, 32, 2>>, dimensions |-> <<64, 32>>,  image |-> "undecodable"] }

\* The padded sizes of the texture arrays, smallest first.
BucketSizes == <<16, 32, 64>>

Buckets == 0 .. Len(BucketSizes) - 1

\* renderer::bucket_info(width, height): the bucket of the smallest padded size
\* that holds width and height (the largest bucket beyond that), and its size
BucketInfo(w, h) ==
    LET m    == IF w >= h THEN w ELSE h
        fits == {i \in 1 .. Len(BucketSizes) : BucketSizes[i] >= m}
        i    == IF fits = {} THEN Len(BucketSizes) ELSE Min(fits)
    IN  [bucket_id |-> i - 1, size |-> BucketSizes[i]]

\* n as f32: a u32 below 2^24 is kept, a larger one is rounded to 24 significant
\* bits, to the even neighbour in a tie
AsF32(n) ==
    IF n < 2^24 THEN n
    ELSE LET k   == CHOOSE e \in 24 .. 30 : 2^e <= n /\ n \div 2 < 2^e
             ulp == 2^(k - 23)
             q   == n \div ulp
             r   == n % ulp
         IN  IF 2 * r > ulp \/ (2 * r = ulp /\ q % 2 = 1) THEN (q + 1) * ulp ELSE q * ulp

\* an f32 that holds a whole number of pixels, as u32
AsU32(f) == IF f < 0 THEN 0 ELSE f

\* load_spritesheet(file): [ok, frame_width, frame_height, frames]; not ok when
\* image::open fails, parse_parameters fails or get_frame_coordinates fails
LoadSpritesheet(sheet, checks) ==
    LET failed == [ok |-> FALSE, frame_width |-> 0, frame_height |-> 0, frames |-> << >>]
        parsed == ParseParameters(sheet.dimensions, sheet.file, checks)
        fp     == parsed.fp
        at(id) == GetFrameCoordinates(sheet.dimensions, fp, id, checks)
        pad    == BucketInfo(fp.frame_width, fp.frame_height).size
    IN  IF sheet.image # "ok" THEN failed
        ELSE IF ~parsed.ok THEN failed
        ELSE IF \E id \in 0 .. fp.frame_count - 1 : ~at(id).ok THEN failed
        ELSE [ok |-> TRUE, frame_width |-> fp.frame_width, frame_height |-> fp.frame_height,
              frames |-> [i \in 1 .. fp.frame_count |->
                            [frame_id |-> i - 1, x |-> at(i - 1).x, y |-> at(i - 1).y,
                             size |-> pad]]]

\* create_sprite(width, height, frames, texture_id)
CreateSprite(w, h, count, texture_id) ==
    [width |-> w, height |-> h, frames |-> count,
     bucket_id |-> BucketInfo(AsU32(w), AsU32(h)).bucket_id, texture_id |-> texture_id]

\* TextureIdOf taking the index of the last frame of the array
TextureIdOfLastFrame(raw) == IF raw = << >> THEN 0 ELSE Len(raw) - 1

\* let texture_id = context.tex_array[bucket_id as usize].raw.len() as u32;
TextureIdOf(raw) == Len(raw)

NoLocals == [sheet |-> [file |-> << >>, dimensions |-> <<2, 1>>, image |-> "ok"],
             call |-> 0, frame_width |-> 0, frame_height |-> 0, frames |-> << >>,
             bucket_id |-> 0, texture_id |-> 0, frame_count |-> 0]

\* The context after construction: no texture in any array, nothing to upload
FileInit ==
    /\ tex_array = [b \in Buckets |-> [raw |-> << >>, dirty |-> FALSE]]
    /\ fpc = [t \in Loaders |-> "idle"]
    /\ flocal = [t \in Loaders |-> NoLocals]
    /\ fbefore = [t \in Loaders |-> [b \in Buckets |-> [raw |-> << >>, dirty |-> FALSE]]]
    /\ sprites = {}
    /\ loads = 0

\* Sprite::from_file(context, file) is called
FromFileCall(t) ==
    /\ fpc[t] \in {"idle", "returned"}
    /\ loads < MaxLoads
    /\ \E sheet \in Sheets :
          flocal' = [flocal EXCEPT ![t] = [NoLocals EXCEPT !.sheet = sheet, !.call = loads + 1]]
    /\ loads' = loads + 1
    /\ fpc' = [fpc EXCEPT ![t] = "lock"]
    /\ UNCHANGED <<notFile, ctxLock, ctxPoisoned, tex_array, fbefore, sprites>>

\* let mut context = context.lock();
\* After a holder has failed the lock either refuses (the call fails) or hands
\* out the guard all the same.
FromFileLock(t) ==
    /\ fpc[t] = "lock"
    /\ ctxLock = "free"
    /\ \E refused \in {FALSE, ctxPoisoned} :
          IF refused
          THEN /\ fpc' = [fpc EXCEPT ![t] = "panicked"]
               /\ UNCHANGED ctxLock
          ELSE /\ fpc' = [fpc EXCEPT ![t] = "load"]
               /\ ctxLock' = t
    /\ fbefore' = [fbefore EXCEPT ![t] = tex_array]
    /\ UNCHANGED <<notFile, ctxPoisoned, tex_array, flocal, sprites, loads>>

\* let (frame_width, frame_height, frames) = load_spritesheet(file);
FromFileLoad(t) ==
    LET loaded == LoadSpritesheet(flocal[t].sheet, overflow_checks)
    IN  /\ fpc[t] = "load"
        /\ loaded.ok
        /\ flocal' = [flocal EXCEPT ![t].frame_width = loaded.frame_width,
                                    ![t].frame_height = loaded.frame_height,
                                    ![t].frames = loaded.frames]
        /\ fpc' = [fpc EXCEPT ![t] = "bucket"]
        /\ UNCHANGED <<notFile, ctxLock, ctxPoisoned, tex_array, fbefore, sprites, loads>>

\* FromFileLoadPanics marking the first bucket for upload on its way out
FromFileLoadPanicsDirty(t) ==
    /\ fpc[t] = "load"
    /\ ~LoadSpritesheet(flocal[t].sheet, overflow_checks).ok
    /\ fpc' = [fpc EXCEPT ![t] = "panicked"]
    /\ tex_array' = [tex_array EXCEPT ![0].dirty = TRUE]
    /\ ctxLock' = "free"
    /\ ctxPoisoned' = TRUE
    /\ UNCHANGED <<notFile, flocal, fbefore, sprites, loads>>

\* load_spritesheet panics (unwrap of image::open, the asserts of parse_parameters
\* and get_frame_coordinates): from_file unwinds and the context guard is dropped
FromFileLoadPanics(t) ==
    /\ fpc[t] = "load"
    /\ ~LoadSpritesheet(flocal[t].sheet, overflow_checks).ok
    /\ fpc' = [fpc EXCEPT ![t] = "panicked"]
    /\ ctxLock' = "free"
    /\ ctxPoisoned' = TRUE
    /\ UNCHANGED <<notFile, tex_array, flocal, fbefore, sprites, loads>>

\* let (bucket_id, _) = renderer::bucket_info(frame_width, frame_height);
\* let texture_id = ..raw.len() as u32; let frame_count = frames.len() as u32;
FromFileBucket(t) ==
    LET bucket_id == BucketInfo(flocal[t].frame_width, flocal[t].frame_height).bucket_id
    IN  /\ fpc[t] = "bucket"
        /\ flocal' = [flocal EXCEPT ![t].bucket_id = bucket_id,
                                    ![t].texture_id = TextureIdOf(tex_array[bucket_id].raw),
                                    ![t].frame_count = Len(flocal[t].frames)]
        /\ fpc' = [fpc EXCEPT ![t] = "push"]
        /\ UNCHANGED <<notFile, ctxLock, ctxPoisoned, tex_array, fbefore, sprites, loads>>

\* for frame in frames { context.tex_array[bucket_id as usize].raw.push(frame); }
FromFilePush(t) ==
    LET b     == flocal[t].bucket_id
        frame == [call |-> flocal[t].call, frame |-> Head(flocal[t].frames)]
    IN  /\ fpc[t] = "push"
        /\ flocal[t].frames # << >>
        /\ tex_array' = [tex_array EXCEPT ![b].raw = Append(@, frame)]
        /\ flocal' = [flocal EXCEPT ![t].frames = Tail(@)]
        /\ UNCHANGED <<notFile, ctxLock, ctxPoisoned, fpc, fbefore, sprites, loads>>

\* context.tex_array[bucket_id as usize].dirty = true;
FromFileDirty(t) ==
    /\ fpc[t] = "push"
    /\ flocal[t].frames = << >>
    /\ tex_array' = [tex_array EXCEPT ![flocal[t].bucket_id].dirty = TRUE]
    /\ fpc' = [fpc EXCEPT ![t] = "create"]
    /\ UNCHANGED <<notFile, ctxLock, ctxPoisoned, flocal, fbefore, sprites, loads>>

\* create_sprite(frame_width as f32, frame_height as f32, frame_count, texture_id);
\* from_file returns the sprite and the context guard is dropped
FromFileReturn(t) ==
    /\ fpc[t] = "create"
    /\ sprites' = sprites \cup
          { [call   |-> flocal[t].call,
             sprite |-> CreateSprite(AsF32(flocal[t].frame_width),
                                     AsF32(flocal[t].frame_height),
                                     flocal[t].frame_count, flocal[t].texture_id)] }
    /\ ctxLock' = "free"
    /\ fpc' = [fpc EXCEPT ![t] = "returned"]
    /\ UNCHANGED <<notFile, ctxPoisoned, tex_array, flocal, fbefore, loads>>

FromFileNext(t) ==
    \/ FromFileCall(t)
    \/ FromFileLock(t)
    \/ FromFileLoad(t)
    \/ FromFileLoadPanics(t)
    \/ FromFileBucket(t)
    \/ FromFilePush(t)
    \/ FromFileDirty(t)
    \/ FromFileReturn(t)

FileNext == \E t \in Loaders : FromFileNext(t)

-----------------------------------------------------------------------------
(***************************************************************************)
(* The specifications                                                      *)
(***************************************************************************)
\* The layout variables while another part runs: layout_paragraph on the empty text.
LayoutParked ==
    /\ LayoutInit
    /\ text = << >>
    /\ font = [kerning |-> "none", accent |-> TRUE]
    /\ width = 0

\* The sprite sheet variables while another part runs: one frame, 2 x 1.
SpriteParked ==
    /\ SpriteInit
    /\ file = << >>
    /\ dimensions = <<2, 1>>
    /\ overflow_checks

Init == LayerNew /\ CacheInit /\ LayoutParked /\ SpriteParked /\ NewInit /\ WriteInit
        /\ FileInit

SpecLayer == Init /\ [][LayerNext]_vars

SpecCache == Init /\ [][CacheNext]_vars

SpecDraw == Init /\ [][ThreadsNext]_vars

SpecNew == Init /\ [][NewNext]_vars

SpecWrite == Init /\ [][WriteNext]_vars

SpecLocks == Init /\ [][LocksNext]_vars

SpecFile == Init /\ [][FileNext]_vars

InitLayout == LayerNew /\ CacheInit /\ LayoutInit /\ SpriteParked /\ NewInit /\ WriteInit
              /\ FileInit

SpecLayout == InitLayout /\ [][LayoutNext]_vars

InitSprite == LayerNew /\ CacheInit /\ LayoutParked /\ SpriteInit /\ NewInit /\ WriteInit
              /\ FileInit

SpecSprite == InitSprite /\ [][SpriteNext]_vars

-----------------------------------------------------------------------------
(***************************************************************************)
(* C1: the modification counter read after sprite(), reset(),              *)
(* set_view_matrix(), set_blendmode() or set_color() is strictly greater   *)
(* than the value read before the call.                                    *)
(* The setters only write their own field: lid is the same after them.     *)
(***************************************************************************)
C1_LidIncreasesAfterMutators ==
    op \in {"sprite", "reset", "set_view_matrix", "set_blendmode", "set_color"}
        => lid > lidBefore

-----------------------------------------------------------------------------
\* FontCache::update returns in this step.
UpdateReturns == pc[Render] # "returned" /\ pc'[Render] = "returned"

\* No producer is inside FontCache::queue after this step.
NoQueueRunning == \A p \in Producers : pc'[p] \in {"idle", "panicked"}

\* Producer p is inside the part of FontCache::queue that works on the packer
\* and on the pending queue.
InQueueBody(p) == pc[p] \in {"q_glyphs", "q_cache_queued", "q_store", "q_return"}

(***************************************************************************)
(* C2: every (rectangle, pixel data) pair the packer issued is written to  *)
(* the texture exactly once: never twice, and once by the time an update   *)
(* returns with no queue call running.                                     *)
(* A queue call in which cache_queued fails after it issued pairs panics   *)
(* with the pairs pending, the dirty flag unset and both mutexes poisoned: *)
(* no later update writes them.                                            *)
(***************************************************************************)
C2_EachPairWrittenExactlyOnce ==
    [][ /\ \A i \in 1 .. Len(writes') : writes'[i] <= 1
        /\ (UpdateReturns /\ NoQueueRunning)
              => \A i \in 1 .. Len(writes') : writes'[i] = 1 ]_vars

(***************************************************************************)
(* C3: two FontCache::queue calls never overlap, and the pending entries   *)
(* one call produced are contiguous in the pending queue.                  *)
(***************************************************************************)
C3_QueueCallsSerialized ==
    /\ \A p, q \in Producers : (InQueueBody(p) /\ InQueueBody(q)) => p = q
    /\ \A p \in Producers : InQueueBody(p) => (cacheLock = p /\ queueLock = p)
    /\ \A i, j, k \in 1 .. Len(pending) :
          (i < j /\ j < k /\ pending[i].call = pending[k].call)
              => pending[j].call = pending[i].call

\* Two calls have left entries in the pending queue, one of them more than one.
C3_Witness ==
    \E i, j, k \in 1 .. Len(pending) :
        /\ i < j /\ j < k
        /\ pending[i].call # pending[k].call
        /\ (pending[i].call = pending[j].call \/ pending[j].call = pending[k].call)

(***************************************************************************)
(* C4: when FontCache::update returns and no queue call is running, the    *)
(* dirty flag is false and the pending queue is empty.                     *)
(* After a queue call that panicked in cache_queued().unwrap() with pairs  *)
(* pushed and the flag unset, update returns at once and leaves them.      *)
(***************************************************************************)
C4_AfterUpdateCleanAndEmpty ==
    [][ (UpdateReturns /\ NoQueueRunning) => (~dirty' /\ pending' = << >>) ]_vars

-----------------------------------------------------------------------------
\* layout_paragraph has returned.
LayoutDone == chars = << >>

\* The characters the loop has taken so far.
Taken == SubSeq(Nfc(text), 1, Len(Nfc(text)) - Len(chars))

\* s without its line feeds, its control characters other than carriage return,
\* and its characters that have no glyph in font f.
Strip(f, s) ==
    LET Keep(c) == c = "CR" \/ (c \notin Controls /\ HasGlyph(f, c))
    IN  SelectSeq(s, Keep)

(***************************************************************************)
(* C6: for "AB\rCD" and width 0, A and B are on line 1, C is at x = 0 one  *)
(* line height below, and D follows on C's line, for every kerning table.  *)
(* The carriage return leaves last_glyph_id at B, so C is moved by the     *)
(* kerning of the pair B, C.                                               *)
(***************************************************************************)
C6_CarriageReturnStartsLineAtZero ==
    (LayoutDone /\ text = <<"A", "B", "CR", "C", "D">> /\ width = 0) =>
        /\ Len(result) = 4
        /\ result[1].y = VMetrics.ascent /\ result[2].y = result[1].y
        /\ result[3].x = 0
        /\ result[3].y = result[2].y + AdvanceHeight
        /\ result[4].y = result[3].y /\ result[4].x > result[3].x

(***************************************************************************)
(* C7 as claimed: for "ABCD" and a positive width smaller than the         *)
(* combined advance widths of A, B and C, C is at x = 0 on a line below    *)
(* the first.                                                              *)
(***************************************************************************)
C7_NarrowWidthWrapsBeforeC ==
    ( /\ LayoutDone /\ text = <<"A", "B", "C", "D">>
      /\ width > 0
      /\ width < AdvanceWidth("A") + AdvanceWidth("B") + AdvanceWidth("C") ) =>
        /\ result[3].x = 0
        /\ result[3].y > result[1].y

(***************************************************************************)
(* C7 as amended: for "ABCD" and a positive width, C is wrapped exactly    *)
(* when the right edge of its pixel bounding box, at the caret after B     *)
(* moved by the kerning of B, C (no kerning when B itself was wrapped), is *)
(* beyond the width; C is then at x = 0 on the line below B, and otherwise *)
(* at the kerned caret on B's line.                                        *)
(***************************************************************************)
C7_WrapsWhenBoundingBoxExceedsWidth ==
    (LayoutDone /\ text = <<"A", "B", "C", "D">> /\ width > 0) =>
        LET b        == result[2]
            c        == result[3]
            bWrapped == b.y > result[1].y
            kerned   == b.x + AdvanceWidth("B")
                            + (IF bWrapped THEN 0 ELSE PairKerning(font, "B", "C"))
        IN  IF PixelMaxX("C", kerned) > WidthAsI32(width)
            THEN c.x = 0 /\ c.y = b.y + AdvanceHeight
            ELSE c.x = kerned /\ c.y = b.y

\* "ABCD" laid out with B on A's line, kerning between B and C, and C wrapped.
C7_Witness ==
    /\ LayoutDone /\ text = <<"A", "B", "C", "D">> /\ width > 0
    /\ PairKerning(font, "B", "C") # 0
    /\ result[2].y = result[1].y
    /\ result[3].x = 0 /\ result[3].y = result[2].y + AdvanceHeight

(***************************************************************************)
(* C8 as claimed: the output is the output for the text without its line   *)
(* feeds, its other control characters except carriage return, and its     *)
(* characters that have no glyph.                                          *)
(* The text is normalized first: taking a character out of the text can    *)
(* bring a letter and a combining accent together, which then compose.     *)
(***************************************************************************)
C8_UnchangedByRemovalFromText ==
    LayoutDone => result = LayoutParagraph(font, width, Strip(font, text))

(***************************************************************************)
(* C8 as amended: the loop's state (glyphs, caret, kerning predecessor) is *)
(* what it is for the normalized characters taken so far without the line  *)
(* feeds, the other control characters except carriage return, and the     *)
(* characters that have no glyph.                                          *)
(***************************************************************************)
C8_UnchangedByRemovalFromNfc ==
    LayoutState = LayoutLoop(font, width, LayoutStart, Strip(font, Taken))

\* A character without a glyph, or a control character, stood between two glyphs
\* that are kerned.
C8_Witness ==
    /\ LayoutDone /\ Len(text) = 3 /\ Len(result) = 2
    /\ text[2] \in {"LF", "TAB", "snowman"}
    /\ PairKerning(font, text[1], text[3]) # 0
    /\ result[2].x = result[1].x + AdvanceWidth(text[1]) + PairKerning(font, text[1], text[3])

-----------------------------------------------------------------------------
\* The file name carries the suffix _<W>x<H>x<N>.
HasSuffix == file # << >>

\* W * N = d as numbers: the product fits in 32 bits and is d.
Exactly(a, b, d) == ~MulU32(a, b).overflow /\ U32Equals(MulU32(a, b), d)

\* The strip-axis size of the sheet does not match the image.
Mismatch ==
    \/ file[2] = dimensions[2] /\ ~Exactly(file[1], file[3], dimensions[1])
    \/ file[2] # dimensions[2] /\ ~Exactly(file[2], file[3], dimensions[2])

(***************************************************************************)
(* C9: for a file name with the suffix, parse_parameters fails whenever    *)
(* the strip-axis size does not match (H = ih and W*N # iw, or H # ih and  *)
(* H*N # ih), and no frames are returned.                                  *)
(* The products are u32: in a build without overflow checks W*N can wrap   *)
(* to iw, and parse_parameters returns.                                    *)
(***************************************************************************)
C9_MismatchFailsParse ==
    (HasSuffix /\ Mismatch /\ spc # "parse") => (spc = "panicked" /\ frames = << >>)

(***************************************************************************)
(* C10: for an accepted horizontal strip (H = ih and W*N = iw),            *)
(* load_spritesheet does not fail, frame i is cropped at (i*W, 0) with the *)
(* parsed width and height, and it returns exactly N frames.               *)
(***************************************************************************)
C10_HorizontalStripFrames ==
    (HasSuffix /\ file[2] = dimensions[2] /\ Exactly(file[1], file[3], dimensions[1])) =>
        /\ spc # "panicked"
        /\ spc # "parse" =>
              /\ frame_parameters.frame_width = file[1]
              /\ frame_parameters.frame_height = file[2]
        /\ \A i \in 1 .. Len(frames) :
              frames[i] = [x |-> (i - 1) * file[1], y |-> 0,
                           width |-> file[1], height |-> file[2]]
        /\ Len(frames) <= file[3]
        /\ spc = "returned" => Len(frames) = file[3]

\* name_32x32x4.png on a 128 x 32 image has been loaded.
C10_Witness ==
    /\ spc = "returned"
    /\ file = <<32, 32, 4>>
    /\ dimensions = <<128, 32>>
    /\ Len(frames) = 4

-----------------------------------------------------------------------------
\* What the renderer caches of a layer.
RendererState == <<vertex_data, view_matrix, model_matrix, blend, color>>

(***************************************************************************)
(* C13: in the history of one layer the modification counter changes in a  *)
(* step exactly when the renderer-relevant state (vertex buffer, view      *)
(* matrix, model matrix, blend mode, color) changes in it, so that states  *)
(* with the same counter have the same such state.                         *)
(* The set_* methods and the guards write their field and leave lid alone. *)
(***************************************************************************)
C13_LidChangesIffStateChanges ==
    [][ (lid' = lid) <=> (RendererState' = RendererState) ]_vars

-----------------------------------------------------------------------------
\* The four vertices q are one quad: top-left, top-right, bottom-left, bottom-right.
IsQuad(q) ==
    /\ \A i \in 2 .. 4 :
          /\ q[i].position = q[1].position
          /\ q[i].rotation = q[1].rotation
          /\ q[i].bucket_id = q[1].bucket_id
          /\ q[i].texture_id = q[1].texture_id
          /\ q[i].color = q[1].color
    /\ q[1].offset[1] = q[3].offset[1] /\ q[2].offset[1] = q[4].offset[1]
    /\ q[1].offset[2] = q[2].offset[2] /\ q[3].offset[2] = q[4].offset[2]
    /\ q[1].offset[1] < q[2].offset[1]
    /\ q[1].offset[2] < q[3].offset[2]
    /\ q[1].texture_uv = <<"0", "0">>     /\ q[2].texture_uv = <<"u_max", "0">>
    /\ q[3].texture_uv = <<"0", "v_max">> /\ q[4].texture_uv = <<"u_max", "v_max">>

(***************************************************************************)
(* C16: a sprite call leaves the vertices there were and appends four, a   *)
(* reset leaves none, no other Layer method changes the buffer - so the    *)
(* buffer holds 4 vertices for each sprite call since the last reset - and *)
(* the vertices are, four by four, quads in the order top-left, top-right, *)
(* bottom-left, bottom-right with one position, rotation, bucket id,       *)
(* texture id and color.                                                   *)
(***************************************************************************)
C16_FourVerticesPerSpriteSinceReset ==
    [][ /\ op' = "sprite" =>
              /\ Len(vertex_data') = Len(vertex_data) + 4
              /\ SubSeq(vertex_data', 1, Len(vertex_data)) = vertex_data
        /\ op' = "reset" => vertex_data' = << >>
        /\ op' \notin {"sprite", "reset"} => vertex_data' = vertex_data
        /\ Len(vertex_data') % 4 = 0
        /\ \A j \in 0 .. (Len(vertex_data') \div 4 - 1) :
              IsQuad(SubSeq(vertex_data', 4 * j + 1, 4 * j + 4))
      ]_vars

\* sprite, reset, sprite: one quad in the buffer.
C16_Witness ==
    /\ op = "sprite"
    /\ lid = 3
    /\ Len(vertex_data) = 4

-----------------------------------------------------------------------------
\* Thread c has its layer.
Created(c) == layers[c] # << >>

(***************************************************************************)
(* C14: a layer's global id is greater than the ids of the layers that     *)
(* existed when its Layer::new was called, two layers never have the same  *)
(* id, also when created concurrently, and once a layer exists no step     *)
(* changes its id.                                                         *)
(***************************************************************************)
C14_GlobalIdsUniqueIncreasingFixed ==
    [][ /\ \A c \in Creators : Created(c)' =>
              /\ \A g \in nbefore'[c] : g < layers'[c][1].gid
              /\ \A d \in Creators \ {c} : Created(d)' => layers'[d][1].gid # layers'[c][1].gid
        /\ \A c \in Creators : Created(c) =>
              (Created(c)' /\ layers'[c][1].gid = layers[c][1].gid)
      ]_vars

\* Three layers exist; the first thread's layer was constructed after it had
\* fetched its id later than the second thread, and a method has run on it.
C14_Witness ==
    /\ \A c \in Creators : Created(c)
    /\ layers[1][1].gid > layers[2][1].gid
    /\ nbefore[1] = {}
    /\ layers[1][1].lid > 0

-----------------------------------------------------------------------------
\* The loop places a glyph in this step.
PlacesGlyph == chars # << >> /\ Len(result') = Len(result) + 1

(***************************************************************************)
(* C15: when the width is positive and the right edge of the glyph's pixel *)
(* bounding box, at the kerned caret, is beyond it, the glyph is placed at *)
(* x = 0 one line height below the caret, the caret after it is at its     *)
(* advance width on that line, and the kerning predecessor is cleared; a   *)
(* glyph placed with no predecessor is at the caret or wrapped to 0; a     *)
(* glyph without a bounding box is placed at the kerned caret.             *)
(* Positions and the width are in half pixels.                             *)
(***************************************************************************)
C15_WrappedGlyphStartsLineUnkerned ==
    [][ PlacesGlyph =>
          LET g      == Head(chars)
              kerned == caret[1] + (IF last_glyph_id # << >>
                                    THEN PairKerning(font, last_glyph_id[1], g) ELSE 0)
              placed == result'[Len(result')]
          IN  /\ (width > 0 /\ HasBoundingBox(g) /\ 2 * PixelMaxX(g, kerned) > width) =>
                    /\ placed.x = 0
                    /\ placed.y = caret[2] + AdvanceHeight
                    /\ caret' = <<AdvanceWidth(g), placed.y>>
                    /\ last_glyph_id' = << >>
              /\ last_glyph_id = << >> => placed.x \in {caret[1], 0}
              /\ ~HasBoundingBox(g) => (placed.x = kerned /\ placed.y = caret[2])
      ]_vars

\* "ABCD": C was kerned against B and wrapped, and D follows it at C's advance
\* width although the font kerns every pair.
C15_Witness ==
    /\ LayoutDone /\ text = <<"A", "B", "C", "D">> /\ width > 0
    /\ font.kerning = "tight"
    /\ result[2].y = result[1].y
    /\ result[3].x = 0 /\ result[3].y = result[2].y + AdvanceHeight
    /\ result[4].x = AdvanceWidth("C") /\ result[4].y = result[3].y

-----------------------------------------------------------------------------
\* Thread t has called Sprite::draw: its texture id is computed.
Drawing(t) == dpc[t] # "idle"

(***************************************************************************)
(* C11: for a sprite with n >= 1 frames and base texture id b,             *)
(* texture_id(frame_id) is b + r, where 0 <= r < n and frame_id = q*n + r  *)
(* for some q: it lies in b .. b + n - 1, and frame_id and frame_id + n    *)
(* give the same texture id.                                               *)
(***************************************************************************)
C11_TextureIdWraps ==
    \A t \in Threads :
        (Drawing(t) /\ dargs[t].sprite.frames >= 1) =>
            LET b == dargs[t].sprite.texture_id
                n == dargs[t].sprite.frames
                f == dargs[t].frame_id
            IN  /\ dtex[t] \in b .. (b + n - 1)
                /\ \E q \in 0 .. f : f = q * n + (dtex[t] - b)
                /\ \A u \in Threads :
                      (Drawing(u) /\ dargs[u].sprite = dargs[t].sprite
                                  /\ dargs[u].frame_id = f + n) => dtex[u] = dtex[t]

\* Two threads draw frames 0 and 3 of the sprite with three frames.
C11_Witness ==
    \E t, u \in Threads :
        /\ Drawing(t) /\ Drawing(u)
        /\ dargs[t].sprite.frames = 3 /\ dargs[u].sprite = dargs[t].sprite
        /\ dargs[t].frame_id = 0 /\ dargs[u].frame_id = 3
        /\ dtex[t] = dargs[t].sprite.texture_id

-----------------------------------------------------------------------------
\* Thread t has its run of four slots.
HasRun(t) == dpc[t] \in {"fill", "done"}

\* The slots of thread t's run.
RunSlots(t) == drun[t] .. (drun[t] + 3)

-----------------------------------------------------------------------------
\* The positions of the glyphs passed so far for which rect_for returned a rectangle.
Resolved(t) ==
    LET IsSome(i) == wrects[t][i] # << >>
    IN  SelectSeq([i \in 1 .. Len(wrects[t]) |-> i], IsSome)

(***************************************************************************)
(* C17: write resolves glyphs only after FontCache::queue has returned     *)
(* from queuing all its glyphs; the quads it has appended are, in layout   *)
(* order, one for each glyph passed for which rect_for returned a          *)
(* rectangle and none for the others; every glyph is passed, one by one,   *)
(* and the write that returns has passed them all.                         *)
(***************************************************************************)
C17_OneQuadPerResolvedGlyph ==
    \A t \in Producers :
        /\ wrects[t] # << >> =>
              /\ wpc[t] \in {"resolve", "done"}
              /\ pc[t] = "idle"
              /\ args[t] = Queued(wglyphs[t])
        /\ Len(wrects[t]) = wi[t] - 1
        /\ wquads[t] = [j \in 1 .. Len(Resolved(t)) |->
                          [glyph |-> Resolved(t)[j], uv |-> wrects[t][Resolved(t)[j]][1]]]
        /\ wpc[t] = "done" => Len(wrects[t]) = Len(wglyphs[t])

\* A write of three glyphs, the second without a bitmap, has returned with a
\* quad for the first and one for the third.
C17_Witness ==
    \E t \in Producers :
        /\ wpc[t] = "done"
        /\ wglyphs[t] = <<2, NoBitmap, 1>>
        /\ Len(wquads[t]) = 2
        /\ wquads[t][1].glyph = 1 /\ wquads[t][2].glyph = 3

-----------------------------------------------------------------------------
(***************************************************************************)
(* C18: whenever no thread holds the pending-queue lock, a non-empty       *)
(* pending queue implies that the dirty flag is set.                       *)
(* When cache_queued returns an error after the closure has pushed pairs,  *)
(* unwrap() panics before dirty.store: the guard is dropped with the pairs *)
(* pending and the flag as it was.                                         *)
(***************************************************************************)
C18_PendingImpliesDirty ==
    (queueLock = "free" /\ pending # << >>) => dirty

-----------------------------------------------------------------------------
\* The threads that call queue, update and rect_for.
Callers == Producers \cup {Render, Reader}

\* Where caller t stands.
At(t) == IF t = Reader THEN rpc ELSE pc[t]

\* Caller t is inside a call: it has steps to take or a lock to get.
Running(t) == At(t) \notin {"idle", "returned", "panicked", "some", "none"}

\* The mutex caller t is about to lock, and who holds it.
Wanted(t) ==
    IF At(t) \in {"q_lock_cache", "r_lock"} THEN cacheLock
    ELSE IF At(t) \in {"q_lock_queue", "u_lock"} THEN queueLock
    ELSE "free"

\* Caller t waits for a mutex another thread holds.
Blocked(t) == Wanted(t) # "free"

(***************************************************************************)
(* C19: queue, update and rect_for never deadlock: a mutex that is held is *)
(* held by a thread inside a call, and a thread that waits for a mutex     *)
(* waits for a thread that does not itself wait for a thread that waits -  *)
(* the waiting ends at a holder that can take its next step, so there is   *)
(* no cycle of waiting threads.                                            *)
(***************************************************************************)
C19_NoCyclicWait ==
    /\ \A lock \in {cacheLock, queueLock} : lock # "free" => Running(lock)
    /\ \A t \in Callers : Blocked(t) =>
          /\ Wanted(t) # t
          /\ Blocked(Wanted(t)) => ~Blocked(Wanted(Wanted(t)))

\* rect_for waits for the packer lock, held by a queue call that waits for the
\* pending-queue lock, held by update.
C19_Witness ==
    /\ Blocked(Reader)
    /\ \E p \in Producers : cacheLock = p /\ Blocked(p)
    /\ queueLock = Render

-----------------------------------------------------------------------------
\* parse_parameters has returned frame parameters for the sheet.
Accepted == frame_parameters # NoParameters

\* The rectangle build_frame_texture crops for a frame lies inside the image.
InsideImage(f) ==
    /\ f.x + f.width <= dimensions[1]
    /\ f.y + f.height <= dimensions[2]

\* Two crop rectangles share a pixel.
Overlap(f, g) ==
    /\ f.x < g.x + g.width
    /\ g.x < f.x + f.width
    /\ f.y < g.y + g.height
    /\ g.y < f.y + f.height

(***************************************************************************)
(* C20: for a sheet that parse_parameters accepts, every frame id below    *)
(* frame_count gets a crop rectangle (get_frame_coordinates does not       *)
(* fail), the rectangle lies inside the image, and the rectangles of two   *)
(* different frame ids do not overlap.                                     *)
(* parse_parameters compares only the strip axis with the image: the other *)
(* size of the frame is never compared, and a wrapped product is accepted. *)
(***************************************************************************)
C20_CropRectanglesInsideAndDisjoint ==
    Accepted =>
        /\ spc # "panicked"
        /\ \A i \in 1 .. Len(frames) : InsideImage(frames[i])
        /\ \A i, j \in 1 .. Len(frames) : i # j => ~Overlap(frames[i], frames[j])

-----------------------------------------------------------------------------
\* The places of a sprite's frames in its bucket's array: texture ids
\* [base, base + frame_count), counted from 1 as the sequence is.
RunOf(s) == s.sprite.texture_id + 1 .. s.sprite.texture_id + s.sprite.frames

\* The places in bucket b's array that hold a frame appended by call c.
PlacesOf(c, b) == {i \in 1 .. Len(tex_array[b].raw) : tex_array[b].raw[i].call = c}

\* Thread t's call has read the array length and not yet been followed by another.
HasBase(t) == fpc[t] \in {"push", "create", "returned"}

(***************************************************************************)
(* C21: the frames of a sheet that from_file has loaded stand in the array *)
(* of the sprite's bucket, and in no other, as one run in frame order that *)
(* starts at the sprite's base texture id; the base is the length the      *)
(* array had before the append; the bucket is marked dirty; and the runs   *)
(* of two sprites in one bucket, loaded by concurrent calls, are disjoint. *)
(***************************************************************************)
C21_FramesAreOneRunPerSprite ==
    /\ \A s \in sprites :
          LET b == s.sprite.bucket_id
          IN  /\ PlacesOf(s.call, b) = RunOf(s)
              /\ \A i \in RunOf(s) :
                    tex_array[b].raw[i].frame.frame_id = i - 1 - s.sprite.texture_id
              /\ \A other \in Buckets \ {b} : PlacesOf(s.call, other) = {}
              /\ s.sprite.frames > 0
              /\ tex_array[b].dirty
    /\ \A t \in Loaders :
          HasBase(t) => flocal[t].texture_id = Len(fbefore[t][flocal[t].bucket_id].raw)
    /\ \A s1, s2 \in sprites :
          (s1 # s2 /\ s1.sprite.bucket_id = s2.sprite.bucket_id)
              => RunOf(s1) \cap RunOf(s2) = {}

\* Two calls were under way together, the second one got the context first, and
\* both have returned a sprite of two frames in the same bucket.
C21_Witness ==
    \E s1, s2 \in sprites :
        /\ s1.call = 1 /\ s2.call = 2
        /\ s1.sprite.bucket_id = s2.sprite.bucket_id
        /\ s2.sprite.texture_id = 0
        /\ s1.sprite.texture_id = 2
        /\ s1.sprite.frames = 2

\* Thread t's call fails in this step.
Fails(t) == fpc[t] # "panicked" /\ fpc'[t] = "panicked"

\* The calls that have failed.
FailedCalls == {flocal[t].call : t \in {l \in Loaders : fpc[l] = "panicked"}}

(***************************************************************************)
(* C22: a from_file call that fails (file not found, undecodable image,    *)
(* sheet that does not match) leaves the texture arrays as they were when  *)
(* it got the context: no frame of it stands in any array and no bucket    *)
(* has been marked dirty by it, so that the base texture id a later load   *)
(* reads is the array length without the failed call.                      *)
(***************************************************************************)
C22_FailedLoadLeavesContextUnchanged ==
    [][ /\ \A t \in Loaders :
              Fails(t) => /\ tex_array' = tex_array
                          /\ fpc[t] = "load" => tex_array' = fbefore[t]
        /\ \A b \in Buckets : \A c \in FailedCalls' : PlacesOf(c, b)' = {}
        /\ \A b \in Buckets : tex_array'[b].dirty => tex_array'[b].raw # << >>
      ]_vars

\* Call 1 failed in load_spritesheet, and call 2, made later by the other thread,
\* has returned the first sprite of its bucket with base texture id 0.
C22_Witness ==
    /\ fpc["l1"] = "panicked" /\ flocal["l1"].call = 1
    /\ flocal["l1"].sheet.file = <<32, 32, 3>>
    /\ fpc["l2"] = "returned"
    /\ \E s \in sprites : s.call = 2 /\ s.sprite.texture_id = 0 /\ s.sprite.bucket_id = 1

=============================================================================
